---- MODULE Spec2Model ----
(***************************************************************************)
(* A model of generate_tfplan_summary.py: summarize_changes walks the      *)
(* resource_changes of a decoded Terraform plan, computes the property     *)
(* rows of each entry from its actions, before and after, renders one      *)
(* block per entry and wraps the joined blocks in the format's header and  *)
(* footer.                                                                 *)
(*                                                                         *)
(* Python values are tagged records.  A Python string that the program     *)
(* builds (a row, a block, the report) is the sequence of its pieces: the  *)
(* literal fragments of the f-string and the interpolated values, in       *)
(* order; concatenation is \o and the empty string is << >>.  A TLA+      *)
(* string cannot hold the backquote character, so the backquotes of the    *)
(* Markdown templates are written as apostrophes.                          *)
(***************************************************************************)
EXTENDS Integers, Sequences, FiniteSets, TLC

VARIABLES
    tfplan_json_file,  \* the decoded plan handed to summarize_changes
    output_format,     \* "html" or "markdown"
    pc,                \* "loop": in the for loop; "returned"; "raised"
    idx,               \* number of resource_changes entries processed
    output,            \* the list of rendered blocks
    diffs,             \* the rows of the entry processed last
    action,            \* the label of the entry processed last
    result,            \* the returned report
    raised             \* the exception that left summarize_changes

vars == <<tfplan_json_file, output_format, pc, idx, output, diffs, action,
          result, raised>>

---------------------------------------------------------------------------
(* Bounds of the inputs.                                                   *)

\* most properties in before and after of one entry, taken together
MaxProps == 3
\* most entries of resource_changes in a plan of several entries
MaxEntries == 2

---------------------------------------------------------------------------
(* Python values.                                                          *)

\* A decoded JSON object with known field names is a record; a field the
\* object does not hold has the value Absent.
Absent == [t |-> "absent"]
None == [t |-> "None"]
Str(s) == [t |-> "str", s |-> s]
List(items) == [t |-> "list", items |-> items]
Dict(items) == [t |-> "dict", items |-> items]
NoException == [type |-> "none", arg |-> ""]
KeyError(key) == [type |-> "KeyError", arg |-> key]

\* str(value), as an f-string interpolates it
PyStr(v) == CASE v.t = "str" -> v.s
              [] v.t = "None" -> "None"

\* value = "null" if value is None else value
NullToken(v) == IF v = None THEN Str("null") ELSE v

\* Property names, listed in the order Python's sorted() gives them.
KeyUniverse == <<"acl", "id", "tags">>
Keys == {KeyUniverse[n] : n \in DOMAIN KeyUniverse}
KeyRank(k) == CHOOSE n \in DOMAIN KeyUniverse : KeyUniverse[n] = k
\* a < b on two property names (str.__lt__)
StrLess(a, b) == KeyRank(a) < KeyRank(b)

\* A dict is the sequence of its items, in iteration order.
DictKeys(d) == {d[n].k : n \in DOMAIN d}
\* d.get(key, default)
DictGet(d, key, default) ==
    IF key \in DictKeys(d)
    THEN d[CHOOSE n \in DOMAIN d : d[n].k = key].v
    ELSE default

\* change["change"].get(field, {}) or {}
GetOrEmpty(c, field) ==
    LET got == IF c[field] = Absent THEN Dict(<< >>) ELSE c[field]
    IN  IF got = None \/ got = Dict(<< >>) THEN << >> ELSE got.items

RECURSIVE sorted(_)
\* sorted(all_keys): the least name first, then the rest sorted
sorted(S) ==
    IF S = {} THEN << >>
    ELSE LET least == CHOOSE a \in S : \A b \in S \ {a} : StrLess(a, b)
         IN  <<least>> \o sorted(S \ {least})

RECURSIVE join(_, _)
\* sep.join(parts) on a list of strings
join(sep, parts) ==
    IF parts = << >> THEN << >>
    ELSE IF Len(parts) = 1 THEN parts[1]
    ELSE parts[1] \o <<sep>> \o join(sep, Tail(parts))

---------------------------------------------------------------------------
(* The module's constants and its two formatting functions.                *)

HEADER ==
    [html |-> <<"\n<!DOCTYPE html>\n<html lang=\"en\">\n<head>\n<meta charset=\"UTF-8\">\n<meta name=\"viewport\" content=\"width=device-width, initial-scale=1.0\">\n<title>Terraform Plan</title>\n<style>\nbody { font-family: Arial, sans-serif; padding: 20px; background: #f9f9f9; }\nh2 { color: #333; }\n.resource-block { background: #fff; padding: 15px; margin: 10px 0; border-radius: 5px; box-shadow: 0 0 5px rgba(0,0,0,0.1); }\n.diff-section { display: flex; gap: 20px; }\n// pre { background: #eee; padding: 10px; overflow-x: auto; border-radius: 5px; max-width: 45vw; }\ntable { border-collapse: collapse; }\nth, td { border: 1px solid #ddd; text-align: left; }\nth { background-color: #f4f4f4; font-weight: bold; }\ntr:nth-child(even) { background-color: #f9f9f9; }\n</style>\n</head>\n<body>\n<h1>Terraform Plan Summary</h1>\n<h2>Terraform Plan: List of Resource Property Changes</h2>\n">>,
     markdown |-> <<"## Terraform Plan: List of Resource Changes\n\n">>]

FOOTER ==
    [html |-> <<"</body>\n</html>\n">>,
     markdown |-> <<"\n\n">>]

gen_resource_changes(fmt, address, act, difflines) ==
    IF fmt = "html" THEN
        IF difflines = << >> THEN
            <<"\n<div class=\"resource-block\">\n<h3>Resource: ", address,
              "</h3>\n<p><strong>Actions:</strong> ", act,
              "</p>\n<div class=\"diff-section\">\n",
              "<p>No property changes detected.</p>\n",
              "</div>\n</div>\n">>
        ELSE
            <<"\n<div class=\"resource-block\">\n<h3>Resource: ", address,
              "</h3>\n<p><strong>Actions:</strong> ", act,
              "</p>\n<div class=\"diff-section\">\n",
              "<table>\n<thead><tr><th>Property</th><th>Before</th><th>After</th></tr></thead>\n<tbody>\n">>
            \o difflines
            \o <<"\n</tbody>\n</table>\n</div>\n</div>\n">>
    ELSE IF fmt = "markdown" THEN
        IF difflines = << >> THEN
            <<"### Resource ", act, ": '", address, "'\n\n",
              "No property changes detected.\n">>
        ELSE
            <<"### Resource ", act, ": '", address, "'\n\n",
              "| Property | Before | After |\n| -------- | ------ | ----- |\n">>
            \o difflines
    ELSE << >>

\* diff_formats[output_format][action]: a row is seven pieces, the property
\* name second, the before cell fourth and the after cell sixth.
gen_resource_property_changes(fmt, act, key, before_value, after_value) ==
    IF fmt = "html" THEN
        CASE act = "[CREATE]" ->
               <<"<tr class=\"create\"><td><pre>", key, "</pre></td><td>",
                 "(New)", "</td><td>", PyStr(after_value), "</td></tr>">>
          [] act = "[DELETE]" ->
               <<"<tr class=\"delete\"><td><pre>", key, "</pre></td><td>",
                 PyStr(before_value), "</td><td>", "(Deleted)", "</td></tr>">>
          [] act = "[UPDATE]" ->
               <<"<tr class=\"update\"><td><pre>", key, "</pre></td><td>",
                 PyStr(before_value), "</td><td>", PyStr(after_value),
                 "</td></tr>">>
          [] act = "[REPLACE]" ->
               <<"<tr class=\"replace\"><td><pre>", key, "</pre></td><td>",
                 PyStr(before_value), "</td><td>", PyStr(after_value),
                 "</td></tr>">>
    ELSE
        CASE act = "[CREATE]" ->
               <<"| '", key, "' | ", "(New)", " | '", PyStr(after_value),
                 "' |">>
          [] act = "[DELETE]" ->
               <<"| '", key, "' | '", PyStr(before_value), "' | ",
                 "(Deleted)", " |">>
          [] act = "[UPDATE]" ->
               <<"| '", key, "' | '", PyStr(before_value), "' | '",
                 PyStr(after_value), "' |">>
          [] act = "[REPLACE]" ->
               <<"| '", key, "' | '", PyStr(before_value), "' | '",
                 PyStr(after_value), "' |">>

---------------------------------------------------------------------------
(* The body of the for loop of summarize_changes.                          *)

\* before_value != after_value, on the values of the model
PyNe(a, b) == a # b

\* action_of comparing the actions as sets, not as lists
action_of_any_order(actions) ==
    LET tokens == {actions.items[n] : n \in DOMAIN actions.items}
    IN  IF tokens = {"create"} THEN "[CREATE]"
        ELSE IF tokens = {"delete"} THEN "[DELETE]"
        ELSE IF tokens = {"update"} THEN "[UPDATE]"
        ELSE IF tokens = {"delete", "create"} THEN "[REPLACE]"
        ELSE ""

\* the branch taken by the if/elif chain on actions, as the label it sets
action_of(actions) ==
    IF actions = List(<<"create">>) THEN "[CREATE]"
    ELSE IF actions = List(<<"delete">>) THEN "[DELETE]"
    ELSE IF actions = List(<<"update">>) THEN "[UPDATE]"
    ELSE IF actions = List(<<"delete", "create">>) THEN "[REPLACE]"
    ELSE ""

\* create_diffs without the null token
create_diffs_keeps_none(fmt, after) ==
    [n \in 1..Len(after) |->
        gen_resource_property_changes(fmt, "[CREATE]", after[n].k,
                                      Str("(New)"), after[n].v)]

\* actions == ["create"]: for key, value in after.items()
create_diffs(fmt, after) ==
    [n \in 1..Len(after) |->
        gen_resource_property_changes(fmt, "[CREATE]", after[n].k,
                                      Str("(New)"), NullToken(after[n].v))]

\* actions == ["delete"]: for key, value in before.items()
delete_diffs(fmt, before) ==
    [n \in 1..Len(before) |->
        gen_resource_property_changes(fmt, "[DELETE]", before[n].k,
                                      NullToken(before[n].v), Str("(Deleted)"))]

RECURSIVE update_loop_raw_before(_, _, _, _)
\* update_loop with the null token on the after value only
update_loop_raw_before(fmt, before, after, n) ==
    IF n > Len(after) THEN << >>
    ELSE LET key == after[n].k
             before_value == DictGet(before, key, Str("(New)"))
             after_value == NullToken(DictGet(after, key, Str("(Delete)")))
         IN  (IF before_value # after_value
              THEN <<gen_resource_property_changes(fmt, "[UPDATE]", key,
                                                   before_value, after_value)>>
              ELSE << >>)
             \o update_loop_raw_before(fmt, before, after, n + 1)

RECURSIVE update_loop_all_keys(_, _, _, _, _)
\* update_loop over a list of keys that need not be keys of after
update_loop_all_keys(fmt, before, after, keys, n) ==
    IF n > Len(keys) THEN << >>
    ELSE LET key == keys[n]
             before_value == NullToken(DictGet(before, key, Str("(New)")))
             after_value == NullToken(DictGet(after, key, Str("(Delete)")))
         IN  (IF before_value # after_value
              THEN <<gen_resource_property_changes(fmt, "[UPDATE]", key,
                                                   before_value, after_value)>>
              ELSE << >>)
             \o update_loop_all_keys(fmt, before, after, keys, n + 1)

RECURSIVE update_loop(_, _, _, _)
\* actions == ["update"]: for key in after, from the n-th key on
update_loop(fmt, before, after, n) ==
    IF n > Len(after) THEN << >>
    ELSE LET key == after[n].k
             before_value == NullToken(DictGet(before, key, Str("(New)")))
             after_value == NullToken(DictGet(after, key, Str("(Delete)")))
         IN  (IF PyNe(before_value, after_value)
              THEN <<gen_resource_property_changes(fmt, "[UPDATE]", key,
                                                   before_value, after_value)>>
              ELSE << >>)
             \o update_loop(fmt, before, after, n + 1)

\* the keys of two dicts in iteration order, those of the first dict first
keys_in_order(first, second) ==
    [n \in 1..Len(first) |-> first[n].k]
    \o SelectSeq([n \in 1..Len(second) |-> second[n].k],
                 LAMBDA k : k \notin DictKeys(first))

update_diffs_raw_before(fmt, before, after) ==
    update_loop_raw_before(fmt, before, after, 1)

\* update_diffs visiting the keys of before as well
update_diffs_all_keys(fmt, before, after) ==
    update_loop_all_keys(fmt, before, after, keys_in_order(after, before), 1)

update_diffs(fmt, before, after) == update_loop(fmt, before, after, 1)

RECURSIVE replace_loop(_, _, _, _, _)
\* actions == ["delete", "create"]: for key in sorted(all_keys), from the
\* n-th key on
replace_loop(fmt, before, after, keys, n) ==
    IF n > Len(keys) THEN << >>
    ELSE LET key == keys[n]
             before_value == NullToken(DictGet(before, key, Str("(none)")))
             after_value == NullToken(DictGet(after, key, Str("(none)")))
         IN  (IF PyNe(before_value, after_value)
              THEN <<gen_resource_property_changes(fmt, "[REPLACE]", key,
                                                   before_value, after_value)>>
              ELSE << >>)
             \o replace_loop(fmt, before, after, keys, n + 1)

\* replace_diffs without sorted()
replace_diffs_unsorted(fmt, before, after) ==
    replace_loop(fmt, before, after, keys_in_order(before, after), 1)

replace_diffs(fmt, before, after) ==
    LET all_keys == DictKeys(before) \cup DictKeys(after)
    IN  replace_loop(fmt, before, after, sorted(all_keys), 1)

\* compute_diffs whose delete branch walks after
compute_diffs_delete_walks_after(fmt, actions, before, after) ==
    CASE action_of(actions) = "[CREATE]" -> create_diffs(fmt, after)
      [] action_of(actions) = "[DELETE]" -> delete_diffs(fmt, after)
      [] action_of(actions) = "[UPDATE]" -> update_diffs(fmt, before, after)
      [] action_of(actions) = "[REPLACE]" -> replace_diffs(fmt, before, after)
      [] OTHER -> << >>

\* diffs at the end of the if/elif chain
compute_diffs(fmt, actions, before, after) ==
    CASE action_of(actions) = "[CREATE]" -> create_diffs(fmt, after)
      [] action_of(actions) = "[DELETE]" -> delete_diffs(fmt, before)
      [] action_of(actions) = "[UPDATE]" -> update_diffs(fmt, before, after)
      [] action_of(actions) = "[REPLACE]" -> replace_diffs(fmt, before, after)
      [] OTHER -> << >>

\* append_block leaving out an entry without rows
append_block_skips_unchanged(out, fmt, address, act, rows) ==
    IF rows # << >>
    THEN Append(out, gen_resource_changes(fmt, PyStr(address), act,
                                          join("\n", rows)))
    ELSE out

\* append_block passing the branch's label also without rows
append_block_keeps_label(out, fmt, address, act, rows) ==
    Append(out, gen_resource_changes(fmt, PyStr(address), act,
                                     join("\n", rows)))

\* if diffs: output.append(...) else: output.append(...)
append_block(out, fmt, address, act, rows) ==
    IF rows # << >>
    THEN Append(out, gen_resource_changes(fmt, PyStr(address), act,
                                          join("\n", rows)))
    ELSE Append(out, gen_resource_changes(fmt, PyStr(address), "NoChanges",
                                          << >>))

\* missing_key with change["address"] looked up first
missing_key_address_first(change) ==
    IF change.address = Absent THEN "address"
    ELSE IF change.change = Absent THEN "change"
    ELSE IF change.change.actions = Absent THEN "actions"
    ELSE ""

\* The key whose lookup raises KeyError in change["change"]["actions"] and
\* change["address"], in the order the lookups run; "" when none does.
missing_key(change) ==
    IF change.change = Absent THEN "change"
    ELSE IF change.change.actions = Absent THEN "actions"
    ELSE IF change.address = Absent THEN "address"
    ELSE ""

\* if not output: output.append(...), then the returned string
NO_CHANGES == <<"No changes detected in the Terraform plan.">>
final_output(out) == IF out = << >> THEN <<NO_CHANGES>> ELSE out
\* report without header and footer around the Markdown sentence
report_bare_sentence(fmt, out) ==
    IF out = << >> /\ fmt = "markdown" THEN NO_CHANGES
    ELSE HEADER[fmt] \o join("\n\n", final_output(out)) \o FOOTER[fmt]

report(fmt, out) ==
    HEADER[fmt] \o join("\n\n", final_output(out)) \o FOOTER[fmt]

---------------------------------------------------------------------------
(* The inputs.                                                             *)

Formats == {"html", "markdown"}
\* null, the string "null" and an ordinary string
PlainValues == {None, Str("null"), Str("private")}
\* the values of the properties of an entry with the given actions: under
\* update and replace also the string the branch uses as its default
ValuesFor(a) ==
    IF a = <<"update">> THEN PlainValues \cup {Str("(New)")}
    ELSE IF a = <<"delete", "create">> THEN PlainValues \cup {Str("(none)")}
    ELSE PlainValues

AllValues == PlainValues \cup {Str("(New)"), Str("(none)")}
\* the values a before or after field holds
MappingValues(m) ==
    IF m = Absent \/ m = None THEN {} ELSE {m.items[n].v : n \in DOMAIN m.items}

\* the dicts of j items with distinct keys, in every iteration order
DictsOfLen(j, V) ==
    {Dict(m) : m \in {f \in [1..j -> [k : Keys, v : V]] :
                        \A a, b \in 1..j : a # b => f[a].k # f[b].k}}
\* the values of a before or after field holding j properties
MappingsOfLen(j, V) ==
    IF j = 0 THEN {Absent, None, Dict(<< >>)} ELSE DictsOfLen(j, V)
\* before and after, of at most MaxProps properties together
BoundedPairs(V) ==
    UNION {MappingsOfLen(jb, V) \X MappingsOfLen(ja, V) :
             <<jb, ja>> \in {q \in (0..MaxProps) \X (0..MaxProps) :
                               q[1] + q[2] <= MaxProps}}

KindActions ==
    {<<"create">>, <<"delete">>, <<"update">>, <<"delete", "create">>,
     <<"noop">>}
OtherActions ==
    {<< >>, <<"create", "delete">>, <<"no-op">>, <<"create", "create">>}
Addresses == {"aws_s3_bucket.x", "aws_instance.y"}

\* one entry of every kind with every bounded before and after
RichEntries ==
    {[address |-> Str("aws_s3_bucket.x"),
      change |-> [actions |-> List(q[1]), before |-> q[2][1],
                  after |-> q[2][2]]] :
        q \in {r \in KindActions \X BoundedPairs(AllValues) :
                 /\ MappingValues(r[2][1]) \subseteq ValuesFor(r[1])
                 /\ MappingValues(r[2][2]) \subseteq ValuesFor(r[1])}}

AclBefore == Dict(<<[k |-> "acl", v |-> Str("private")]>>)
AclAfter == Dict(<<[k |-> "acl", v |-> Str("public-read")]>>)
\* the entries of the plans of several entries
PlainEntries ==
    {[address |-> Str(ad),
      change |-> [actions |-> List(a), before |-> AclBefore,
                  after |-> AclAfter]] :
        ad \in Addresses, a \in {<<"update">>, <<"noop">>}}
OddEntries ==
    {[address |-> Str("aws_s3_bucket.x"),
      change |-> [actions |-> List(a), before |-> AclBefore,
                  after |-> AclAfter]] : a \in OtherActions}
MalformedEntries ==
    {[address |-> Str("aws_s3_bucket.x"), change |-> Absent],
     [address |-> Str("aws_s3_bucket.x"),
      change |-> [actions |-> Absent, before |-> AclBefore,
                  after |-> AclAfter]],
     [address |-> Absent,
      change |-> [actions |-> List(<<"update">>), before |-> AclBefore,
                  after |-> AclAfter]],
     [address |-> Absent,
      change |-> [actions |-> Absent, before |-> Absent, after |-> Absent]]}
SmallEntries == PlainEntries \cup MalformedEntries

Plans ==
    {[resource_changes |-> Absent]}
    \cup {[resource_changes |-> List(s)] :
            s \in UNION {[1..n -> SmallEntries] : n \in 0..MaxEntries}}
    \cup {[resource_changes |-> List(<<e>>)] :
            e \in RichEntries \cup OddEntries}

---------------------------------------------------------------------------
(* summarize_changes as a state machine.                                   *)

\* tfplan_json_file.get("resource_changes", [])
resource_changes ==
    IF tfplan_json_file.resource_changes = Absent THEN << >>
    ELSE tfplan_json_file.resource_changes.items

TypeOK ==
    /\ output_format \in Formats
    /\ pc \in {"loop", "returned", "raised"}
    /\ idx \in 0..Len(resource_changes)

Init ==
    /\ tfplan_json_file \in Plans
    /\ output_format \in Formats
    /\ pc = "loop"
    /\ idx = 0
    /\ output = << >>
    /\ diffs = << >>
    /\ action = ""
    /\ result = << >>
    /\ raised = NoException

\* one pass of the for loop over the next entry
Iterate ==
    /\ pc = "loop"
    /\ idx < Len(resource_changes)
    /\ LET change == resource_changes[idx + 1]
       IN  IF missing_key(change) # ""
           THEN /\ pc' = "raised"
                /\ raised' = KeyError(missing_key(change))
                /\ UNCHANGED <<idx, output, diffs, action>>
           ELSE LET actions == change.change.actions
                    address == change.address
                    before == GetOrEmpty(change.change, "before")
                    after == GetOrEmpty(change.change, "after")
                    rows == compute_diffs(output_format, actions, before,
                                          after)
                IN  /\ diffs' = rows
                    /\ action' = action_of(actions)
                    /\ output' = append_block(output, output_format, address,
                                              action_of(actions), rows)
                    /\ idx' = idx + 1
                    /\ UNCHANGED <<pc, raised>>
    /\ UNCHANGED <<tfplan_json_file, output_format, result>>

\* the loop is over: the no-changes sentence if nothing was appended, and
\* the report is returned
Return ==
    /\ pc = "loop"
    /\ idx = Len(resource_changes)
    /\ output' = final_output(output)
    /\ result' = report(output_format, output)
    /\ pc' = "returned"
    /\ UNCHANGED <<tfplan_json_file, output_format, idx, diffs, action,
                   raised>>

Next == Iterate \/ Return

Spec == Init /\ [][Next]_vars

---------------------------------------------------------------------------
(* What the properties below read from a state.                            *)

\* the entry the loop processed last and what it holds
LastEntry == resource_changes[idx]
LastBlock == output[idx]
Mapping(m) == IF m = Absent \/ m = None THEN << >> ELSE m.items
LastBefore == Mapping(LastEntry.change.before)
LastAfter == Mapping(LastEntry.change.after)
\* the loop has processed an entry whose actions are the list a
Processed(a) == idx > 0 /\ LastEntry.change.actions = List(a)

KeysOf(d) == {d[n].k : n \in DOMAIN d}
Lookup(d, k) == d[CHOOSE n \in DOMAIN d : d[n].k = k].v
\* how a value is displayed: null as the token null
Display(v) == IF v = None THEN "null" ELSE v.s
\* the cell of key k of mapping d, the marker when d has no such key
Shown(d, k, marker) == IF k \in KeysOf(d) THEN Display(Lookup(d, k)) ELSE marker

\* the cells of a row
RowKey(row) == row[2]
RowBefore(row) == row[4]
RowAfter(row) == row[6]
RowKeySet == {RowKey(diffs[n]) : n \in DOMAIN diffs}

\* the pieces of a block
BlockLabel(block) == IF output_format = "html" THEN block[4] ELSE block[2]
BlockAddress(block) == IF output_format = "html" THEN block[2] ELSE block[4]
SaysNoChanges(block) ==
    \E n \in DOMAIN block :
        block[n] \in {"<p>No property changes detected.</p>\n",
                      "No property changes detected.\n"}
TableHeads ==
    {"<table>\n<thead><tr><th>Property</th><th>Before</th><th>After</th></tr></thead>\n<tbody>\n",
     "| Property | Before | After |\n| -------- | ------ | ----- |\n"}
\* the pieces that close a block after its rows
TailLen == IF output_format = "html" THEN 1 ELSE 0
\* the rows of the table of a block, which follow the head of the table:
\* seven pieces each, a line break between two rows
BlockRows(block) ==
    LET head == CHOOSE n \in DOMAIN block : block[n] \in TableHeads
        count == (Len(block) - head - TailLen + 1) \div 8
    IN  [n \in 1..count |->
            SubSeq(block, head + 8 * (n - 1) + 1, head + 8 * (n - 1) + 7)]
KindLabels == {"[CREATE]", "[DELETE]", "[UPDATE]", "[REPLACE]"}
RecognizedActions ==
    {<<"create">>, <<"delete">>, <<"update">>, <<"delete", "create">>}
\* the label of a recognized actions list
LabelOf(a) ==
    CASE a = <<"create">> -> "[CREATE]"
      [] a = <<"delete">> -> "[DELETE]"
      [] a = <<"update">> -> "[UPDATE]"
      [] a = <<"delete", "create">> -> "[REPLACE]"
\* the first field whose absence stops the loop body, "" when none is absent
FirstMissing(e) ==
    CASE e.change = Absent -> "change"
      [] e.change # Absent /\ e.change.actions = Absent -> "actions"
      [] e.change # Absent /\ e.change.actions # Absent /\ e.address = Absent
           -> "address"
      [] OTHER -> ""
RECURSIVE BlockOffset(_)
\* the number of pieces of the report before block j
BlockOffset(j) ==
    IF j = 1 THEN Len(HEADER[output_format])
    ELSE BlockOffset(j - 1) + Len(output[j - 1]) + 1

---------------------------------------------------------------------------
(* The properties.                                                         *)

\* C5: for actions == [create] the rows are the keys of after, one row per
\* key and in after's iteration order; each row shows (New) before and
\* after[key] after, null as the token null.
CreateRowsAreAfterItems ==
    Processed(<<"create">>) =>
        /\ Len(diffs) = Len(LastAfter)
        /\ \A n \in 1..Len(diffs) :
              /\ RowKey(diffs[n]) = LastAfter[n].k
              /\ RowBefore(diffs[n]) = "(New)"
              /\ RowAfter(diffs[n]) = Display(LastAfter[n].v)

CreateWitness ==
    /\ Processed(<<"create">>)
    /\ Len(LastAfter) = 2
    /\ LastAfter[1].k = "tags"
    /\ LastAfter[2].v = None
    /\ LastBefore # << >>
    /\ Len(diffs) = 2

\* after fields to try in place of the one the entry holds
OtherAfters == {Absent, None, Dict(<< >>)} \cup DictsOfLen(1, PlainValues)

\* C8: for actions == [delete] the rows are the keys of before, one row per
\* key and in before's iteration order; each row shows before[key] before,
\* null as the token null, and (Deleted) after; after has no influence.
DeleteRowsAreBeforeItems ==
    Processed(<<"delete">>) =>
        /\ Len(diffs) = Len(LastBefore)
        /\ \A n \in 1..Len(diffs) :
              /\ RowKey(diffs[n]) = LastBefore[n].k
              /\ RowBefore(diffs[n]) = Display(LastBefore[n].v)
              /\ RowAfter(diffs[n]) = "(Deleted)"
        /\ \A m \in OtherAfters :
              compute_diffs(output_format, List(<<"delete">>), LastBefore,
                            Mapping(m)) = diffs

DeleteWitness ==
    /\ Processed(<<"delete">>)
    /\ LastBefore = <<[k |-> "id", v |-> None]>>
    /\ LastAfter # << >>
    /\ Len(diffs) = 1
    /\ RowBefore(diffs[1]) = "null"

\* C6: for actions == [update] a key of after has a row exactly when the
\* displayed before value (the default when before lacks the key) differs
\* from the displayed after value; a key equal in both, null in both
\* included, has none.
UpdateRowsIffDiffer ==
    Processed(<<"update">>) =>
        /\ \A k \in KeysOf(LastAfter) :
              (k \in RowKeySet) <=>
                  Shown(LastBefore, k, "(New)") # Display(Lookup(LastAfter, k))
        /\ \A k \in KeysOf(LastBefore) \cap KeysOf(LastAfter) :
              Lookup(LastBefore, k) = Lookup(LastAfter, k) => k \notin RowKeySet
        /\ \A n, m \in DOMAIN diffs : RowKey(diffs[n]) = RowKey(diffs[m]) => n = m

UpdateWitness ==
    /\ Processed(<<"update">>)
    /\ \E k \in KeysOf(LastBefore) \cap KeysOf(LastAfter) :
          /\ Lookup(LastBefore, k) = None
          /\ Lookup(LastAfter, k) = None
          /\ k \notin RowKeySet
    /\ diffs # << >>

\* C10: for actions == [update] only keys of after have rows; a key that
\* before alone holds has none, and an update that differs only in such
\* keys is rendered as a NoChanges block; a row of a key before lacks shows
\* (New) before, and no row shows (Delete).
UpdateVisitsAfterOnly ==
    Processed(<<"update">>) =>
        /\ RowKeySet \subseteq KeysOf(LastAfter)
        /\ \A n \in DOMAIN diffs :
              /\ RowKey(diffs[n]) \notin KeysOf(LastBefore)
                    => RowBefore(diffs[n]) = "(New)"
              /\ RowBefore(diffs[n]) # "(Delete)"
              /\ RowAfter(diffs[n]) # "(Delete)"
        /\ (\A k \in KeysOf(LastAfter) :
               Shown(LastBefore, k, "(New)") = Display(Lookup(LastAfter, k)))
              => /\ BlockLabel(LastBlock) = "NoChanges"
                 /\ SaysNoChanges(LastBlock)

UpdateRemovedKeyWitness ==
    /\ Processed(<<"update">>)
    /\ KeysOf(LastBefore) \ KeysOf(LastAfter) # {}
    /\ LastAfter # << >>
    /\ diffs = << >>
    /\ BlockLabel(LastBlock) = "NoChanges"

\* C7: for actions == [delete, create] the rows are the keys of before or
\* after whose two displayed values differ, (none) standing for a missing
\* key and null for a null value; one row per key, in sorted key order.
ReplaceRowsSortedUnion ==
    Processed(<<"delete", "create">>) =>
        /\ RowKeySet =
              {k \in KeysOf(LastBefore) \cup KeysOf(LastAfter) :
                  Shown(LastBefore, k, "(none)") # Shown(LastAfter, k, "(none)")}
        /\ \A n, m \in DOMAIN diffs :
              n < m => KeyRank(RowKey(diffs[n])) < KeyRank(RowKey(diffs[m]))
        /\ \A n \in DOMAIN diffs :
              /\ RowBefore(diffs[n]) = Shown(LastBefore, RowKey(diffs[n]), "(none)")
              /\ RowAfter(diffs[n]) = Shown(LastAfter, RowKey(diffs[n]), "(none)")

ReplaceWitness ==
    /\ Processed(<<"delete", "create">>)
    /\ Len(LastBefore) = 2
    /\ LastBefore[1].k = "tags"
    /\ LastBefore[2].k = "acl"
    /\ LastBefore[2].v = None
    /\ KeysOf(LastAfter) = {"id"}
    /\ Len(diffs) = 3
    /\ RowAfter(diffs[1]) = "(none)"

\* C4: an entry whose actions are none of [create], [delete], [update],
\* [delete, create], compared as sequences, is rendered as a NoChanges block
\* that says no property changes were detected and has no table, and it
\* raises nothing; an entry with one of the four gets that kind's label.
UnknownActionsRenderNoChanges ==
    /\ idx > 0 =>
          IF LastEntry.change.actions.items \in RecognizedActions
          THEN action = LabelOf(LastEntry.change.actions.items)
          ELSE /\ diffs = << >>
               /\ BlockLabel(LastBlock) = "NoChanges"
               /\ SaysNoChanges(LastBlock)
               /\ \A n \in DOMAIN LastBlock : LastBlock[n] \notin TableHeads
    /\ pc = "raised" => FirstMissing(resource_changes[idx + 1]) # ""

UnknownActionsWitness ==
    /\ Processed(<<"create", "delete">>)
    /\ LastBefore # LastAfter
    /\ pc = "returned"
    /\ BlockLabel(LastBlock) = "NoChanges"

\* C9: the block of an entry is the NoChanges block exactly when its rows
\* are empty, also for a recognized kind, and then holds no kind label;
\* otherwise it holds the kind's label and a table of exactly the rows.
NoChangesBlockIffNoDiffs ==
    idx > 0 =>
        /\ (BlockLabel(LastBlock) = "NoChanges" /\ SaysNoChanges(LastBlock))
              <=> (diffs = << >>)
        /\ diffs = << >> =>
              /\ \A n \in DOMAIN LastBlock :
                    LastBlock[n] \notin KindLabels \cup TableHeads
        /\ diffs # << >> =>
              /\ LastEntry.change.actions.items \in RecognizedActions
              /\ BlockLabel(LastBlock) = LabelOf(LastEntry.change.actions.items)
              /\ \E n \in DOMAIN LastBlock : LastBlock[n] \in TableHeads
              /\ BlockRows(LastBlock) = diffs
              /\ ~SaysNoChanges(LastBlock)

NoChangesKindWitness ==
    /\ Processed(<<"update">>)
    /\ Len(LastBefore) = 2
    /\ Len(LastAfter) = 1
    /\ diffs = << >>
    /\ BlockLabel(LastBlock) = "NoChanges"

\* C1: the output list holds one block per processed entry, block j with
\* the address of entry j; the call returns only after every entry, and the
\* report is the header, the blocks in that order and the footer.
OneBlockPerEntryInOrder ==
    /\ (pc # "returned" \/ idx > 0) => Len(output) = idx
    /\ \A j \in 1..idx :
          BlockAddress(output[j]) = resource_changes[j].address.s
    /\ pc = "returned" => idx = Len(resource_changes)
    /\ (pc = "returned" /\ idx > 0) =>
          /\ \A j \in 1..idx :
                SubSeq(result, BlockOffset(j) + 1,
                       BlockOffset(j) + Len(output[j])) = output[j]
          /\ Len(result) = BlockOffset(idx) + Len(output[idx])
                             + Len(FOOTER[output_format])

OrderWitness ==
    /\ pc = "returned"
    /\ idx = 2
    /\ resource_changes[1].address = Str("aws_instance.y")
    /\ resource_changes[2].address = Str("aws_s3_bucket.x")
    /\ resource_changes[1].change.actions = List(<<"noop">>)
    /\ resource_changes[2].change.actions = List(<<"update">>)

\* C2 as stated: for a plan without entries the HTML report is the sentence
\* inside header and footer and the Markdown report is the bare sentence.
EmptyPlanMarkdownIsBare ==
    (pc = "returned" /\ resource_changes = << >>) =>
        IF output_format = "html"
        THEN result = HEADER["html"] \o NO_CHANGES \o FOOTER["html"]
        ELSE result = NO_CHANGES

\* C2, amended: for a plan without entries the report of either format is
\* the format's header, the no-changes sentence and the format's footer,
\* and holds no resource block.
EmptyPlanSentenceInHeaderAndFooter ==
    (pc = "returned" /\ resource_changes = << >>) =>
        /\ Len(result) = 3
        /\ result[2] = "No changes detected in the Terraform plan."
        /\ output_format = "markdown" =>
              /\ result[1] = "## Terraform Plan: List of Resource Changes\n\n"
              /\ result[3] = "\n\n"
        /\ output_format = "html" =>
              /\ result[1] = HEADER["html"][1]
              /\ result[3] = "</body>\n</html>\n"

EmptyPlanWitness ==
    /\ pc = "returned"
    /\ tfplan_json_file.resource_changes = List(<< >>)
    /\ output_format = "markdown"
    /\ Len(result) = 3

====
